---- MODULE Spec2Model ----
(***************************************************************************)
(* A model of the software rasterizer of src/unnamed/part_000 (the         *)
(* bounding-box version with the injected shader) and of src/pipeline.cpp  *)
(* (the earlier full-scan version): projection, perspective divide,        *)
(* bounding box, edge-function containment, depth interpolation and the    *)
(* depth-tested frame buffer.                                              *)
(*                                                                         *)
(* A C++ float is modelled by an exact rational <<n, d>> in lowest terms   *)
(* with d > 0, plus the three IEEE specials <<1,0>> (+inf), <<-1,0>>       *)
(* (-inf) and <<0,0>> (NaN).  Rounding is not modelled: the inputs are     *)
(* small integers and halves, on which the float operations of the code    *)
(* are exact except for the final division of get_z_component.  The sign   *)
(* of a zero is not tracked.                                               *)
(***************************************************************************)
EXTENDS Integers, Sequences, FiniteSets, TLC

VARIABLES
    buf,      \* screen::buf, index 1..W*H holds cell y*W+x
    depth,    \* screen::depth, same indexing
    status,   \* "running", "aborted" (assert failed), "ub" (access outside the arrays)
    ret,      \* what the last at(...) call returned: Handle(index), Nullopt or NoReturn
    tested,   \* history: the at(x,y,d) calls made, as <<x, y, d>>, since the last reset
    written,  \* history: indices of the cells that passed a depth test
    ncalls,   \* history: number of calls a client of the screen has made
    pc,       \* position of main/draw: "idle", "scan", "done"
    tri,      \* draw's locals <<p1, p2, p3>> while pc = "scan"
    bb,       \* draw's local bb while pc = "scan"
    li,       \* draw's loop variable i
    lj,       \* draw's loop variable j
    drawn,    \* history: the triangles passed to draw so far
    fn,       \* pure-function specifications: the function under test
    args,     \* its arguments
    res,      \* its result once applied
    applied   \* whether it has been applied

vars == <<buf, depth, status, ret, tested, written, ncalls, pc, tri, bb, li, lj,
          drawn, fn, args, res, applied>>
screenVars == <<buf, depth, status, ret, tested, written, ncalls>>
drawVars == <<pc, tri, bb, li, lj, drawn>>
pureVars == <<fn, args, res, applied>>

----------------------------------------------------------------------------
(* Bounds of the model *)

W == 3
H == 3
MaxWrites == 2
MaxDraws == 2
MaxF == 1
MaxV == 1
MaxB == 2

----------------------------------------------------------------------------
(* float arithmetic *)

Abs(n) == IF n < 0 THEN -n ELSE n
Sgn(n) == IF n > 0 THEN 1 ELSE IF n < 0 THEN -1 ELSE 0

RECURSIVE Gcd(_, _)
Gcd(a, b) == IF b = 0 THEN a ELSE Gcd(b, a % b)

Norm(n, d) ==
    IF d = 0 THEN <<Sgn(n), 0>>
    ELSE LET g == Gcd(Abs(n), Abs(d))
             s == Sgn(d)
         IN  <<(s * n) \div g, (s * d) \div g>>

F(n) == <<n, 1>>
NaN == <<0, 0>>
Zero == <<0, 1>>
One == <<1, 1>>
Two == <<2, 1>>

IsNaN(a) == a[1] = 0 /\ a[2] = 0
IsInf(a) == a[1] # 0 /\ a[2] = 0
IsFinite(a) == a[2] # 0

Neg(a) == <<-a[1], a[2]>>

Add(a, b) ==
    IF IsNaN(a) \/ IsNaN(b) THEN NaN
    ELSE IF IsInf(a) /\ IsInf(b) THEN (IF a[1] = b[1] THEN a ELSE NaN)
    ELSE IF IsInf(a) THEN a
    ELSE IF IsInf(b) THEN b
    ELSE Norm(a[1] * b[2] + b[1] * a[2], a[2] * b[2])

Sub(a, b) == Add(a, Neg(b))

Mul(a, b) ==
    IF IsNaN(a) \/ IsNaN(b) THEN NaN
    ELSE Norm(a[1] * b[1], a[2] * b[2])

Recip(a) ==
    IF a[1] < 0 THEN <<-a[2], -a[1]>> ELSE <<a[2], a[1]>>

Div(a, b) ==
    IF IsNaN(a) \/ IsNaN(b) THEN NaN
    ELSE LET r == Recip(b) IN Norm(a[1] * r[1], a[2] * r[2])

\* a < b; false whenever an operand is NaN
Lt(a, b) ==
    IF IsNaN(a) \/ IsNaN(b) THEN FALSE
    ELSE IF IsInf(a) /\ IsInf(b) THEN a[1] < b[1]
    ELSE a[1] * b[2] < b[1] * a[2]

\* a >= b; false whenever an operand is NaN
Ge(a, b) ==
    IF IsNaN(a) \/ IsNaN(b) THEN FALSE
    ELSE IF IsInf(a) /\ IsInf(b) THEN a[1] >= b[1]
    ELSE a[1] * b[2] >= b[1] * a[2]

Le(a, b) == Ge(b, a)
Gt(a, b) == Lt(b, a)

\* std::min / std::max over an initializer list (operands here are never NaN)
Min2(a, b) == IF Lt(b, a) THEN b ELSE a
Max2(a, b) == IF Lt(a, b) THEN b ELSE a
Min4(a, b, c, e) == Min2(Min2(Min2(a, b), c), e)
Max4(a, b, c, e) == Max2(Max2(Max2(a, b), c), e)

\* float -> int conversion: truncation toward zero (finite operands only)
Trunc(a) ==
    IF a[1] >= 0 THEN a[1] \div a[2] ELSE -((-a[1]) \div a[2])

----------------------------------------------------------------------------
(* Vector/matrix primitives *)

Vec3(x, y, z) == [x |-> x, y |-> y, z |-> z]
Vec4(x, y, z, w) == [x |-> x, y |-> y, z |-> z, w |-> w]
Vec4of3(v, w) == [x |-> v.x, y |-> v.y, z |-> v.z, w |-> w]

normalize(v) ==
    [x |-> Div(v.x, v.w), y |-> Div(v.y, v.w), z |-> Div(v.z, v.w), w |-> Div(v.w, v.w)]

get_projection_swapped(l, r, t, b, n, f) ==
    << Div(Mul(Two, n), Sub(r, l)), Zero, Div(Add(l, r), Sub(l, r)), Zero,
       Zero, Div(Mul(Two, n), Sub(b, t)), Div(Add(t, b), Sub(b, t)), Zero,
       Zero, Zero, Div(Add(f, n), Sub(f, n)), Div(Mul(Mul(Two, n), f), Sub(n, f)),
       Zero, Zero, One, Zero >>

get_projection(l, r, t, b, n, f) ==
    << Div(Mul(Two, n), Sub(r, l)), Zero, Div(Add(l, r), Sub(l, r)), Zero,
       Zero, Div(Mul(Two, n), Sub(b, t)), Div(Add(t, b), Sub(t, b)), Zero,
       Zero, Zero, Div(Add(f, n), Sub(f, n)), Div(Mul(Mul(Two, n), f), Sub(n, f)),
       Zero, Zero, One, Zero >>

Dot4(m, r, v) ==
    Add(Add(Add(Mul(m[r * 4 + 1], v.x), Mul(m[r * 4 + 2], v.y)),
            Mul(m[r * 4 + 3], v.z)), Mul(m[r * 4 + 4], v.w))

mat4_mul_vec4(m, v) ==
    [x |-> Dot4(m, 0, v), y |-> Dot4(m, 1, v), z |-> Dot4(m, 2, v), w |-> Dot4(m, 3, v)]

----------------------------------------------------------------------------
(* Rasterization math *)

\* the value the edge lambda compares with 0
edge_value(a, b, x, y) ==
    Sub(Mul(Sub(x, a.x), Sub(b.y, a.y)), Mul(Sub(y, a.y), Sub(b.x, a.x)))

edge_strict(a, b, x, y) == Gt(edge_value(a, b, x, y), Zero)

edge(a, b, x, y) == Ge(edge_value(a, b, x, y), Zero)

inside_triangle(a, b, c, x, y) ==
    edge(b, a, x, y) /\ edge(c, b, x, y) /\ edge(a, c, x, y)

get_z_component(a, b, c, x, y) ==
    LET x_p == Sub(Mul(Sub(b.y, a.y), Sub(c.z, a.z)), Mul(Sub(c.y, a.y), Sub(b.z, a.z)))
        y_p == Sub(Mul(Sub(b.z, a.z), Sub(c.x, a.x)), Mul(Sub(c.z, a.z), Sub(b.x, a.x)))
        z_p == Sub(Mul(Sub(b.x, a.x), Sub(c.y, a.y)), Mul(Sub(c.x, a.x), Sub(b.y, a.y)))
        w_p == Neg(Add(Add(Mul(x_p, a.x), Mul(y_p, a.y)), Mul(z_p, a.z)))
    IN  Div(Sub(Sub(Mul(Neg(x_p), x), Mul(y_p, y)), w_p), z_p)

to_cartesian(coord, factor) ==
    Sub(Div(Mul(F(coord), Two), F(factor - 1)), One)

bounding_box(a, b, c, w, h) ==
    [x |-> Div(Mul(Add(Min4(a.x, b.x, c.x, Zero), One), F(w - 1)), Two),
     y |-> Div(Mul(Add(Max4(a.x, b.x, c.x, One), One), F(w - 1)), Two),
     z |-> Div(Mul(Add(Min4(a.y, b.y, c.y, Zero), One), F(h - 1)), Two),
     w |-> Div(Mul(Add(Max4(a.y, b.y, c.y, One), One), F(h - 1)), Two)]

----------------------------------------------------------------------------
(* Frame buffer *)

Color(r, g, b) == [r |-> r, g |-> g, b |-> b]
Pixel(c, bg, fg) == [c |-> c, background |-> bg, foreground |-> fg]

\* the value the constructor fills buf with
Background == Pixel(" ", Color(0, 0, 0), Color(0, 0, 0))

Cells == 1 .. (W * H)

FreshBuf == [k \in Cells |-> Background]
FreshDepth == [k \in Cells |-> Zero]

\* main's shader: short c = (n + 1.0f) * 128.0f.  The conversion of a value
\* that is not finite or does not fit a short is undefined: any of ShortOnUB.
ShortOnUB == {0, -32768}
ShaderShorts(n) ==
    LET v == Mul(Add(n, One), F(128)) IN
    IF IsFinite(v) /\ Trunc(v) >= -32768 /\ Trunc(v) <= 32767
    THEN {Trunc(v)} ELSE ShortOnUB
ShaderPixels(n) ==
    {Pixel("#", Color(c, c, c), Color(c, c, c)) : c \in ShaderShorts(n)}

\* what at() returns: a reference to an element of buf, or std::nullopt;
\* NoReturn when the call did not return
Handle(k) == <<"cell", k>>
Nullopt == <<"nullopt">>
NoReturn == <<"none">>

\* the linear index at() computes; cell (x, y) is element Idx(x, y) + 1
Idx(x, y) == y * W + x

InRange(x, y) == 0 <= x /\ x < W /\ 0 <= y /\ y < H

\* assert(y * w + x < w * h)
AssertHolds(x, y) == Idx(x, y) < W * H

\* the index lies inside buf and depth
InArrays(x, y) == 0 <= Idx(x, y) /\ Idx(x, y) < W * H

\* the older test of pipeline.cpp, lines 93-100 (commented out there)
DepthTestFails_Older(stored, d) == Gt(stored, d)

\* the conventional test without the slack
DepthTestFails_NoSlack(stored, d) == Lt(stored, d)

\* if (depth[y * w + x] + 1 < d) return std::nullopt;
DepthTestFails(stored, d) == Lt(Add(stored, One), d)

\* What an access outside buf and depth can do.  buf and depth are adjacent
\* members, so a stray store through depth[] can land in a cell of buf and a
\* stray store through buf[] in an entry of depth; the access can also crash
\* or go unnoticed.  Nothing is modelled after it.
StrayPixel == Pixel("?", Color(0, 0, 0), Color(0, 0, 0))
StrayDepths == {NaN}

UBRead ==
    /\ status' = "ub"
    /\ ret' = NoReturn
    /\ UNCHANGED <<buf, depth, written>>

UBAccess ==
    /\ status' = "ub"
    /\ ret' = NoReturn
    /\ UNCHANGED written
    /\ \/ UNCHANGED <<buf, depth>>
       \/ \E k \in Cells :
            /\ buf' = [buf EXCEPT ![k] = StrayPixel]
            /\ UNCHANGED depth
       \/ \E k \in Cells, g \in StrayDepths :
            /\ depth' = [depth EXCEPT ![k] = g]
            /\ UNCHANGED buf

AssertFails ==
    /\ status' = "aborted"
    /\ ret' = NoReturn
    /\ UNCHANGED <<buf, depth, written>>

\* pixel& at(int x, int y): the assertion, then the reference to buf[y*w+x]
At2(x, y) ==
    IF InArrays(x, y)
    THEN /\ ret' = Handle(Idx(x, y))
         /\ UNCHANGED <<buf, depth, status, written>>
    ELSE IF AssertHolds(x, y)
    THEN UBRead
    ELSE AssertFails \/ UBRead

\* at(int x, int y, float d); with store, the caller's assignment through
\* the returned handle as well: if (auto c = at(j, i, d)) c->get() = shader(d);
At3(x, y, d, store) ==
    IF InArrays(x, y)
    THEN IF DepthTestFails(depth[Idx(x, y) + 1], d)
         THEN /\ ret' = Nullopt
              /\ UNCHANGED <<buf, depth, status, written>>
         ELSE /\ depth' = [depth EXCEPT ![Idx(x, y) + 1] = d]
              /\ ret' = Handle(Idx(x, y))
              /\ written' = written \cup {Idx(x, y) + 1}
              /\ IF store
                 THEN \E p \in ShaderPixels(d) :
                        buf' = [buf EXCEPT ![Idx(x, y) + 1] = p]
                 ELSE UNCHANGED buf
              /\ UNCHANGED status
    ELSE IF AssertHolds(x, y)
    THEN UBAccess
    ELSE AssertFails \/ UBAccess

----------------------------------------------------------------------------
(* Values of the variables a specification does not use *)

ScreenFresh ==
    /\ buf = FreshBuf
    /\ depth = FreshDepth
    /\ status = "running"
    /\ ret = NoReturn
    /\ tested = <<>>
    /\ written = {}
    /\ ncalls = 0

DrawIdle ==
    /\ pc = "idle"
    /\ tri = <<>>
    /\ bb = <<>>
    /\ li = 0
    /\ lj = 0
    /\ drawn = <<>>

PureNone ==
    /\ fn = "none"
    /\ args = <<>>
    /\ res = <<>>
    /\ applied = FALSE

----------------------------------------------------------------------------
(* Specifications of the pure functions: Init draws the arguments, the     *)
(* action applies the function once.                                       *)

FrustumVals == (-MaxF) .. MaxF

InitProjection ==
    /\ ScreenFresh /\ DrawIdle
    /\ fn = "get_projection"
    /\ args \in [l : FrustumVals, r : FrustumVals, t : FrustumVals,
                 b : FrustumVals, n : FrustumVals, f : FrustumVals]
    /\ args.r # args.l /\ args.b # args.t /\ args.f # args.n
    /\ res = <<>>
    /\ applied = FALSE

ApplyProjection ==
    /\ fn = "get_projection" /\ ~applied
    /\ res' = get_projection(F(args.l), F(args.r), F(args.t), F(args.b), F(args.n), F(args.f))
    /\ applied' = TRUE
    /\ UNCHANGED <<fn, args, screenVars, drawVars>>

SpecProjection == InitProjection /\ [][ApplyProjection]_vars

\* 2D points as the projected vertices inside_triangle and bounding_box read
Pt(x, y) == Vec4(x, y, Zero, One)

TriCoords == 0 .. MaxV
HalfCoords == {Norm(k, 2) : k \in 0 .. (2 * MaxV)}

InitInside ==
    /\ ScreenFresh /\ DrawIdle
    /\ fn = "inside_triangle"
    /\ args \in [ax : TriCoords, ay : TriCoords, bx : TriCoords, by : TriCoords,
                 cx : TriCoords, cy : TriCoords, x : HalfCoords, y : HalfCoords]
    /\ res = <<>>
    /\ applied = FALSE

ApplyInside ==
    /\ fn = "inside_triangle" /\ ~applied
    /\ res' = inside_triangle(Pt(F(args.ax), F(args.ay)), Pt(F(args.bx), F(args.by)),
                              Pt(F(args.cx), F(args.cy)), args.x, args.y)
    /\ applied' = TRUE
    /\ UNCHANGED <<fn, args, screenVars, drawVars>>

SpecInside == InitInside /\ [][ApplyInside]_vars

BoxCoords == (-MaxB) .. MaxB

InitBBox ==
    /\ ScreenFresh /\ DrawIdle
    /\ fn = "bounding_box"
    /\ args \in [ax : BoxCoords, ay : BoxCoords, bx : BoxCoords, by : BoxCoords,
                 cx : BoxCoords, cy : BoxCoords]
    /\ res = <<>>
    /\ applied = FALSE

ApplyBBox ==
    /\ fn = "bounding_box" /\ ~applied
    /\ res' = bounding_box(Pt(F(args.ax), F(args.ay)), Pt(F(args.bx), F(args.by)),
                           Pt(F(args.cx), F(args.cy)), W, H)
    /\ applied' = TRUE
    /\ UNCHANGED <<fn, args, screenVars, drawVars>>

SpecBBox == InitBBox /\ [][ApplyBBox]_vars

----------------------------------------------------------------------------
(* C9 *)

Q(n, d) == Norm(n, d)

\* C9 (as amended): get_projection returns, entry by entry, row 0 =
\* [2n/(r-l), 0, (l+r)/(l-r), 0], row 1 = [0, 2n/(b-t), (t+b)/(t-b), 0],
\* row 2 = [0, 0, (f+n)/(f-n), 2nf/(n-f)], row 3 = [0, 0, 1, 0].
C9_ProjectionEntries ==
    (fn = "get_projection" /\ applied) =>
        LET l == args.l  r == args.r  t == args.t
            b == args.b  n == args.n  f == args.f
        IN  res = << Q(2 * n, r - l), Zero, Q(l + r, l - r), Zero,
                     Zero, Q(2 * n, b - t), Q(t + b, t - b), Zero,
                     Zero, Zero, Q(f + n, f - n), Q(2 * n * f, n - f),
                     Zero, Zero, One, Zero >>

\* C9 witness: the function was applied to a frustum with t + b # 0, where
\* the sign of the entry in row 1, column 2 shows.
C9_Witness ==
    /\ fn = "get_projection" /\ applied
    /\ args.t + args.b # 0
    /\ args.l + args.r # 0
    /\ args.n # 0

\* C9 (original): row 1 = [0, 2n/(b-t), (t+b)/(b-t), 0] as the spec prints it.
C9_Original ==
    (fn = "get_projection" /\ applied) =>
        LET l == args.l  r == args.r  t == args.t
            b == args.b  n == args.n  f == args.f
        IN  res = << Q(2 * n, r - l), Zero, Q(l + r, l - r), Zero,
                     Zero, Q(2 * n, b - t), Q(t + b, b - t), Zero,
                     Zero, Zero, Q(f + n, f - n), Q(2 * n * f, n - f),
                     Zero, Zero, One, Zero >>

----------------------------------------------------------------------------
(* C8 *)

\* twice the coordinates of the tested point and of the vertices, as integers
PX2 == args.x[1] * (2 \div args.x[2])
PY2 == args.y[1] * (2 \div args.y[2])

\* the point (px/2, py/2) lies on the closed segment from (ux, uy) to (vx, vy)
OnSegment(px, py, ux, uy, vx, vy) ==
    /\ (px - 2 * ux) * (vy - uy) = (py - 2 * uy) * (vx - ux)
    /\ (2 * ux <= px /\ px <= 2 * vx) \/ (2 * vx <= px /\ px <= 2 * ux)
    /\ (2 * uy <= py /\ py <= 2 * vy) \/ (2 * vy <= py /\ py <= 2 * uy)

\* on which of the three edges b->a, c->b, a->c the tested point lies
OnEdgeBA == OnSegment(PX2, PY2, args.bx, args.by, args.ax, args.ay)
OnEdgeCB == OnSegment(PX2, PY2, args.cx, args.cy, args.bx, args.by)
OnEdgeAC == OnSegment(PX2, PY2, args.ax, args.ay, args.cx, args.cy)

\* c lies on the non-negative side of the directed edge b->a
\* (this includes the zero-area triangles)
NonNegativeOrder ==
    (args.cx - args.bx) * (args.ay - args.by)
        - (args.cy - args.by) * (args.ax - args.bx) >= 0

ArgA == Pt(F(args.ax), F(args.ay))
ArgB == Pt(F(args.bx), F(args.by))
ArgC == Pt(F(args.cx), F(args.cy))

\* C8 (as amended): for every triangle (a,b,c) whose third vertex lies on
\* the non-negative side of the directed edge b->a, and every point p on one
\* of its three edge segments, inside_triangle(a,b,c,p.x,p.y) returns true
\* and the edge function of that edge is exactly zero at p.
C8_BoundaryInclusive ==
    (fn = "inside_triangle" /\ applied /\ NonNegativeOrder) =>
        /\ OnEdgeBA => (res = TRUE /\ edge_value(ArgB, ArgA, args.x, args.y) = Zero)
        /\ OnEdgeCB => (res = TRUE /\ edge_value(ArgC, ArgB, args.x, args.y) = Zero)
        /\ OnEdgeAC => (res = TRUE /\ edge_value(ArgA, ArgC, args.x, args.y) = Zero)

\* C8 witness: a triangle of positive area in that order, tested at the
\* midpoint of its edge c->b, which is no vertex.
C8_Witness ==
    /\ fn = "inside_triangle" /\ applied
    /\ NonNegativeOrder
    /\ (args.cx - args.bx) * (args.ay - args.by)
           # (args.cy - args.by) * (args.ax - args.bx)
    /\ OnEdgeCB
    /\ <<PX2, PY2>> # <<2 * args.bx, 2 * args.by>>
    /\ <<PX2, PY2>> # <<2 * args.cx, 2 * args.cy>>
    /\ res = TRUE

\* C8 (original): the same for every triangle, whatever the order of its
\* vertices.
C8_Original ==
    (fn = "inside_triangle" /\ applied) =>
        /\ OnEdgeBA => (res = TRUE /\ edge_value(ArgB, ArgA, args.x, args.y) = Zero)
        /\ OnEdgeCB => (res = TRUE /\ edge_value(ArgC, ArgB, args.x, args.y) = Zero)
        /\ OnEdgeAC => (res = TRUE /\ edge_value(ArgA, ArgC, args.x, args.y) = Zero)

----------------------------------------------------------------------------
(* C3 *)

\* C3: bounding_box returns pixel bounds with 0 <= x_min <= x_max <= width
\* and 0 <= y_min <= y_max <= height.
C3_BoxWithinScreen ==
    (fn = "bounding_box" /\ applied) =>
        /\ Le(Zero, res.x) /\ Le(res.x, res.y) /\ Le(res.y, F(W))
        /\ Le(Zero, res.z) /\ Le(res.z, res.w) /\ Le(res.w, F(H))

----------------------------------------------------------------------------
(* The screen under a client that calls at() on one linear index: Init     *)
(* draws the index, the actions are the calls that address it, in range    *)
(* or not.  res is the history of the last call: its arguments and the     *)
(* entry of depth and buf it addressed, as they were before the call.      *)

Positions == ((-1) .. W) \X ((-1) .. H)
Indices == {Idx(q[1], q[2]) : q \in Positions}
DepthVals == {F(-1), Zero, Norm(1, 2), One, Two, NaN}

Snapshot(op, x, y, d) ==
    [op |-> op, x |-> x, y |-> y, d |-> d,
     depth |-> IF InArrays(x, y) THEN depth[Idx(x, y) + 1] ELSE Zero,
     pixel |-> IF InArrays(x, y) THEN buf[Idx(x, y) + 1] ELSE Background,
     written |-> InArrays(x, y) /\ (Idx(x, y) + 1) \in written]

InitScreen ==
    /\ ScreenFresh /\ DrawIdle
    /\ fn = "at"
    /\ args \in [idx : Indices]
    /\ res = <<>>
    /\ applied = FALSE

ClientMayCall ==
    /\ fn = "at"
    /\ status = "running"
    /\ ncalls < MaxWrites

CallAt2(x, y) ==
    /\ ClientMayCall
    /\ Idx(x, y) = args.idx
    /\ At2(x, y)
    /\ res' = Snapshot("at2", x, y, Zero)
    /\ applied' = TRUE
    /\ ncalls' = ncalls + 1
    /\ UNCHANGED <<tested, fn, args, drawVars>>

CallAt3(x, y, d) ==
    /\ ClientMayCall
    /\ Idx(x, y) = args.idx
    /\ At3(x, y, d, FALSE)
    /\ res' = Snapshot("at3", x, y, d)
    /\ applied' = TRUE
    /\ ncalls' = ncalls + 1
    /\ UNCHANGED <<tested, fn, args, drawVars>>

CallPlot(x, y, d) ==
    /\ ClientMayCall
    /\ Idx(x, y) = args.idx
    /\ At3(x, y, d, TRUE)
    /\ res' = Snapshot("plot", x, y, d)
    /\ applied' = TRUE
    /\ ncalls' = ncalls + 1
    /\ UNCHANGED <<tested, fn, args, drawVars>>

NextScreen ==
    \/ \E q \in Positions : CallAt2(q[1], q[2])
    \/ \E q \in Positions, d \in DepthVals : CallAt3(q[1], q[2], d)
    \/ \E q \in Positions, d \in DepthVals : CallPlot(q[1], q[2], d)

SpecScreen == InitScreen /\ [][NextScreen]_vars

----------------------------------------------------------------------------
(* C1, C2 *)

LastIsDepthTest == fn = "at" /\ applied /\ res.op \in {"at3", "plot"}
LastCell == Idx(res.x, res.y) + 1

\* d <= s + 1 and d > s + 1, d > s on finite values, by cross-multiplication
LeqPlusOne(d, s) == d[1] * s[2] <= (s[1] + s[2]) * d[2]
Ordered(d, s) == IsFinite(d) /\ IsFinite(s)

\* C1 (as amended): once a cell has been written with depth d1, a later
\* depth-tested write whose depth d2 at that cell is greater than d1 + 1
\* does not overwrite it: the stored depth stays d1 and the cell content
\* stays the one written with d1.
C1_FartherThanSlackKeepsCell ==
    (/\ LastIsDepthTest /\ InArrays(res.x, res.y) /\ res.written
     /\ Ordered(res.d, res.depth) /\ ~LeqPlusOne(res.d, res.depth)) =>
        /\ depth[LastCell] = res.depth
        /\ buf[LastCell] = res.pixel

\* C1 witness: a cell written by an earlier call refused a later write of a
\* depth more than 1 greater and still shows the earlier pixel.
C1_Witness ==
    /\ LastIsDepthTest /\ res.op = "plot" /\ InRange(res.x, res.y) /\ res.written
    /\ Ordered(res.d, res.depth) /\ ~LeqPlusOne(res.d, res.depth)
    /\ ret = Nullopt
    /\ buf[LastCell] # Background
    /\ depth[LastCell] = res.depth

\* C1 (original): a later write whose depth d2 is greater than d1 does not
\* overwrite the cell.
C1_Original ==
    (/\ LastIsDepthTest /\ InArrays(res.x, res.y) /\ res.written
     /\ Ordered(res.d, res.depth) /\ res.d[1] * res.depth[2] > res.depth[1] * res.d[2]) =>
        /\ depth[LastCell] = res.depth
        /\ buf[LastCell] = res.pixel

\* C2 (as amended): at(x,y,d) on an in-range cell succeeds exactly when
\* stored_depth + 1 < d is false, which for ordered values is
\* d <= stored_depth + 1 and is always so when d or the stored depth is NaN;
\* on success it sets the stored depth to d and returns a handle to cell
\* (x,y); on failure it returns an empty result and leaves the stored depth
\* and the cell content unchanged.
C2_DepthPolicy ==
    (LastIsDepthTest /\ InRange(res.x, res.y)) =>
        LET pass == \/ IsNaN(res.d) \/ IsNaN(res.depth)
                    \/ (Ordered(res.d, res.depth) /\ LeqPlusOne(res.d, res.depth))
        IN  /\ pass => (ret = Handle(Idx(res.x, res.y)) /\ depth[LastCell] = res.d)
            /\ ~pass => (/\ ret = Nullopt
                         /\ depth[LastCell] = res.depth
                         /\ buf[LastCell] = res.pixel)

\* C2 witness: after a successful write of depth d, a call with a greater
\* depth d' <= d + 1 has succeeded on the same in-range cell.
C2_Witness ==
    /\ LastIsDepthTest /\ res.op = "at3" /\ InRange(res.x, res.y) /\ res.written
    /\ Ordered(res.d, res.depth) /\ LeqPlusOne(res.d, res.depth)
    /\ res.d[1] * res.depth[2] > res.depth[1] * res.d[2]
    /\ ret = Handle(Idx(res.x, res.y))
    /\ depth[LastCell] = res.d

\* C2 (original): the call succeeds exactly when d <= stored_depth + 1.
C2_Original ==
    (LastIsDepthTest /\ InRange(res.x, res.y)) =>
        LET pass == Ordered(res.d, res.depth) /\ LeqPlusOne(res.d, res.depth)
        IN  /\ pass => (ret = Handle(Idx(res.x, res.y)) /\ depth[LastCell] = res.d)
            /\ ~pass => (/\ ret = Nullopt
                         /\ depth[LastCell] = res.depth
                         /\ buf[LastCell] = res.pixel)

----------------------------------------------------------------------------
(* The program: main constructs the screen, calls draw for each triangle   *)
(* of the scene and renders.  draw is modelled per step of its loops; the  *)
(* scene is any sequence of at most MaxDraws triangles over Vertices.      *)

V3(x, y, z) == Vec3(F(x), F(y), F(z))

\* a quad whose projected corners are the corners of the screen, one corner
\* on the far plane, and a vertex outside the frustum
Vertices ==
    { V3(1, -1, 1), V3(1, 1, 1), V3(-1, 1, 1), V3(-2, -2, 2), V3(-3, -1, 1) }

\* constexpr auto projection = get_projection(-1, 1, -1, 1, 1, 2);
Projection == get_projection(F(-1), One, F(-1), One, One, Two)

\* p = mat4_mul_vec4(projection, vec4{v, 1.0}); p.normalize();
Project(v) == normalize(mat4_mul_vec4(Projection, Vec4of3(v, One)))

P1 == tri[1]
P2 == tri[2]
P3 == tri[3]

\* the loop conditions i < bb.w and j < bb.y compare the int with the float
OuterCond == Lt(F(li), bb.w)
InnerCond == Lt(F(lj), bb.y)

InitMain ==
    /\ ScreenFresh /\ DrawIdle /\ PureNone

Running == status = "running"

\* draw(v1, v2, v3) up to the first test of the outer loop condition
DrawCall(v1, v2, v3) ==
    /\ Running /\ pc = "idle"
    /\ Len(drawn) < MaxDraws
    /\ drawn' = Append(drawn, <<v1, v2, v3>>)
    /\ pc' = "scan"
    /\ tri' = <<Project(v1), Project(v2), Project(v3)>>
    /\ bb' = bounding_box(tri'[1], tri'[2], tri'[3], W, H)
    /\ li' = Trunc(bb'.z)
    /\ lj' = Trunc(bb'.x)
    /\ tested' = <<>>
    /\ UNCHANGED <<buf, depth, status, ret, written, ncalls, pureVars>>

\* one pass through the body of the inner loop, and j++
DrawPixel ==
    /\ Running /\ pc = "scan"
    /\ OuterCond /\ InnerCond
    /\ LET mi == to_cartesian(li, H)
           mj == to_cartesian(lj, W)
       IN  IF inside_triangle(P1, P2, P3, mj, mi)
           THEN LET d == get_z_component(P1, P2, P3, mj, mi)
                IN  /\ At3(lj, li, d, TRUE)
                    /\ tested' = Append(tested, <<lj, li, d>>)
           ELSE UNCHANGED <<buf, depth, status, ret, written, tested>>
    /\ lj' = lj + 1
    /\ UNCHANGED <<li, pc, tri, bb, drawn, ncalls, pureVars>>

\* the inner loop ends: i++, and j starts again from bb.x
DrawNextRow ==
    /\ Running /\ pc = "scan"
    /\ OuterCond /\ ~InnerCond
    /\ li' = li + 1
    /\ lj' = Trunc(bb.x)
    /\ UNCHANGED <<screenVars, pc, tri, bb, drawn, pureVars>>

\* the outer loop ends and draw returns
DrawReturn ==
    /\ Running /\ pc = "scan"
    /\ ~OuterCond
    /\ pc' = "idle"
    /\ tri' = <<>>
    /\ bb' = <<>>
    /\ li' = 0
    /\ lj' = 0
    /\ tested' = <<>>
    /\ UNCHANGED <<buf, depth, status, ret, written, ncalls, drawn, pureVars>>

\* render(): putpixel(at(j, i)) for every i < h, j < w; every access is in
\* range, so nothing but the position changes
Render ==
    /\ Running /\ pc = "idle"
    /\ \A i \in 0 .. (H - 1), j \in 0 .. (W - 1) : InArrays(j, i)
    /\ pc' = "done"
    /\ UNCHANGED <<screenVars, tri, bb, li, lj, drawn, pureVars>>

Next ==
    \/ \E v1 \in Vertices, v2 \in Vertices, v3 \in Vertices : DrawCall(v1, v2, v3)
    \/ DrawPixel
    \/ DrawNextRow
    \/ DrawReturn
    \/ Render

Spec == InitMain /\ [][Next]_vars

----------------------------------------------------------------------------
(* C4, C5, C6, C7, C10 *)

\* the pixels of the grid in the order of the loops of pipeline.cpp's draw
GridRowMajor == [k \in 1 .. (W * H) |-> <<(k - 1) % W, (k - 1) \div W>>]

InsideAtPixel(a, b, c, q) ==
    inside_triangle(a, b, c, to_cartesian(q[1], W), to_cartesian(q[2], H))

\* the pixels on which the full scan of pipeline.cpp calls at(j, i, d):
\* for i < h, for j < w, if (inside_triangle(p1, p2, p3, ...))
FullScanPixels(a, b, c) ==
    SelectSeq(GridRowMajor, LAMBDA q : InsideAtPixel(a, b, c, q))

TestedPixels == [k \in 1 .. Len(tested) |-> <<tested[k][1], tested[k][2]>>]

ScanFinished == pc = "scan" /\ ~OuterCond

\* the projected triangle has zero area
ZeroArea(a, b, c) == edge_value(b, a, c.x, c.y) = Zero

InFrustum(p) ==
    /\ Le(F(-1), p.x) /\ Le(p.x, One)
    /\ Le(F(-1), p.y) /\ Le(p.y, One)

\* C4: every access draw issues with out-of-range coordinates fails on the
\* assertion, so draw touches no cell but one addressed in range (stated
\* for the triangles of positive area).
C4_OutOfRangeFailsFast ==
    (pc = "scan" /\ ~ZeroArea(P1, P2, P3) /\ tested # <<>>
     /\ ~InRange(tested[Len(tested)][1], tested[Len(tested)][2])) =>
        /\ status = "aborted"
        /\ ret = NoReturn

\* C5: when draw's bounding-box scan has finished, it has made the
\* depth-tested write on exactly the pixels, in the same row-major order, on
\* which the full scan of the grid makes it (stated for the triangles of
\* positive area inside the frustum).
C5_BoxScanIsFullScan ==
    (/\ Running /\ ScanFinished /\ ~ZeroArea(P1, P2, P3)
     /\ InFrustum(P1) /\ InFrustum(P2) /\ InFrustum(P3)) =>
        TestedPixels = FullScanPixels(P1, P2, P3)

\* C6: for a degenerate triangle inside_triangle is false at every pixel of
\* the grid, so its draw makes no depth-tested write and leaves buf and
\* depth as they were (here: as constructed, for the first draw).
C6_DegenerateDrawsNothing ==
    (/\ ScanFinished /\ ZeroArea(P1, P2, P3)
     /\ InFrustum(P1) /\ InFrustum(P2) /\ InFrustum(P3)) =>
        /\ \A k \in 1 .. (W * H) : ~InsideAtPixel(P1, P2, P3, GridRowMajor[k])
        /\ tested = <<>>
        /\ Len(drawn) = 1 => (buf = FreshBuf /\ depth = FreshDepth)

\* the point lies in the closed triangle, whatever the order of its vertices
InClosedTriangle(a, b, c, x, y) ==
    LET e1 == edge_value(b, a, x, y)
        e2 == edge_value(c, b, x, y)
        e3 == edge_value(a, c, x, y)
    IN  \/ Ge(e1, Zero) /\ Ge(e2, Zero) /\ Ge(e3, Zero)
        \/ Le(e1, Zero) /\ Le(e2, Zero) /\ Le(e3, Zero)

\* the scene was draw(v1, v2, v3); draw(v1, v3, v4) as in main: two
\* triangles of positive area inside the frustum that share the edge v1-v3,
\* their vertices in the order main uses
SceneIsSharedEdgePair ==
    /\ Len(drawn) = 2
    /\ drawn[2][1] = drawn[1][1]
    /\ drawn[2][2] = drawn[1][3]
    /\ LET v1 == Project(drawn[1][1])
           v2 == Project(drawn[1][2])
           v3 == Project(drawn[1][3])
           v4 == Project(drawn[2][3])
       IN  /\ InFrustum(v1) /\ InFrustum(v2) /\ InFrustum(v3) /\ InFrustum(v4)
           /\ Gt(edge_value(v2, v1, v3.x, v3.y), Zero)
           /\ Gt(edge_value(v3, v1, v4.x, v4.y), Zero)

\* C7: after both draws of such a pair, every pixel of the grid that lies in
\* the union of the two closed triangles passes inside_triangle for one of
\* them and has been written: none is left at the background value.
C7_SharedEdgeCovered ==
    (Running /\ pc = "idle" /\ SceneIsSharedEdgePair) =>
        LET v1 == Project(drawn[1][1])
            v2 == Project(drawn[1][2])
            v3 == Project(drawn[1][3])
            v4 == Project(drawn[2][3])
        IN  \A k \in 1 .. (W * H) :
              LET q == GridRowMajor[k]
                  x == to_cartesian(q[1], W)
                  y == to_cartesian(q[2], H)
              IN  (InClosedTriangle(v1, v2, v3, x, y) \/ InClosedTriangle(v1, v3, v4, x, y)) =>
                    /\ inside_triangle(v1, v2, v3, x, y) \/ inside_triangle(v1, v3, v4, x, y)
                    /\ k \in written
                    /\ buf[k] # Background

NoZeroAreaDrawn ==
    \A n \in 1 .. Len(drawn) :
        ~ZeroArea(Project(drawn[n][1]), Project(drawn[n][2]), Project(drawn[n][3]))

\* C10: after any sequence of draw calls (stated for triangles of positive
\* area) every cell either holds the background value with stored depth 0
\* and has never passed a depth test, or its content is the shader's value
\* for its stored depth.
C10_ContentMatchesDepth ==
    NoZeroAreaDrawn =>
        \A k \in Cells :
            \/ buf[k] = Background /\ depth[k] = Zero /\ k \notin written
            \/ buf[k] \in ShaderPixels(depth[k])

====
